---- MODULE Spec2Model ----
(***************************************************************************)
(* Model of python-ar (src/src/ar.py): reading, listing, extracting and    *)
(* merging Unix ar archives.  Files are sequences of one-character         *)
(* strings (bytes); the header layout keeps the real field widths.         *)
(***************************************************************************)
EXTENDS Integers, Sequences, FiniteSets, TLC

(* ------------------------------------------------------------------ *)
(* Bounds of the model                                                  *)
(* ------------------------------------------------------------------ *)
MaxWalk == 8
MaxInserted == 3
MaxReads == 3
CopyBufSize == 16

(* ------------------------------------------------------------------ *)
(* Bytes                                                                *)
(* ------------------------------------------------------------------ *)
NL == "\n"
SP == " "
Min(a, b) == IF a < b THEN a ELSE b

Rep(c, n) == [i \in 1..n |-> c]

DigitVal == [c \in {"0", "1", "2", "3", "4", "5", "6", "7", "8", "9"} |->
  CASE c = "0" -> 0 [] c = "1" -> 1 [] c = "2" -> 2 [] c = "3" -> 3
    [] c = "4" -> 4 [] c = "5" -> 5 [] c = "6" -> 6 [] c = "7" -> 7
    [] c = "8" -> 8 [] c = "9" -> 9]
DigitChar == <<"0", "1", "2", "3", "4", "5", "6", "7", "8", "9">>

IsSpace(c) == c \in {SP, NL}

RECURSIVE LStrip(_)
LStrip(s) == IF s # <<>> /\ IsSpace(Head(s)) THEN LStrip(Tail(s)) ELSE s
RECURSIVE RStrip(_)
RStrip(s) == IF s # <<>> /\ IsSpace(s[Len(s)])
             THEN RStrip(SubSeq(s, 1, Len(s) - 1)) ELSE s
\* str.strip(): leading and trailing whitespace both go
Strip(s) == RStrip(LStrip(s))

StartsWith(s, c) == s # <<>> /\ s[1] = c
EndsWith(s, c) == s # <<>> /\ s[Len(s)] = c

\* value of a non-empty all-digit string in the given base, or -1
RECURSIVE DigitsVal(_, _, _)
DigitsVal(s, base, acc) ==
  IF s = <<>> THEN acc
  ELSE IF Head(s) \in DOMAIN DigitVal /\ DigitVal[Head(s)] < base
       THEN DigitsVal(Tail(s), base, acc * base + DigitVal[Head(s)])
       ELSE -1

\* int(text, base): surrounding whitespace and one sign are accepted
IntResult(v, neg) ==
  IF v < 0 THEN [ok |-> FALSE, val |-> 0]
  ELSE [ok |-> TRUE, val |-> IF neg THEN 0 - v ELSE v]
IntDigits(body, neg, base) ==
  IntResult(IF body = <<>> THEN -1 ELSE DigitsVal(body, base, 0), neg)
IntStripped(t, base) ==
  IntDigits(IF StartsWith(t, "-") \/ StartsWith(t, "+") THEN Tail(t) ELSE t,
            StartsWith(t, "-"), base)
PyInt(text, base) == IntStripped(Strip(text), base)

RECURSIVE NatStr(_, _)
NatStr(n, base) ==
  IF n < base THEN <<DigitChar[n + 1]>>
  ELSE NatStr(n \div base, base) \o <<DigitChar[(n % base) + 1]>>
\* %d and %o without a width
IntStr(n, base) == IF n < 0 THEN <<"-">> \o NatStr(0 - n, base) ELSE NatStr(n, base)
\* %<w>d and %<w>o: right-justified, never truncated
RJ(s, w) == IF Len(s) >= w THEN s ELSE Rep(SP, w - Len(s)) \o s
Fmt(n, w, base) == RJ(IntStr(n, base), w)

magic_string == <<"!", "<", "a", "r", "c", "h", ">", NL>>
\* the byte 0x60 (grave accent) has no string literal in TLA+
GRAVE == "x60"
magic_number == <<GRAVE, NL>>

(* ------------------------------------------------------------------ *)
(* Reading from a file object                                           *)
(* ------------------------------------------------------------------ *)
\* file.read(n) at position pos: short at end of file, n = -1 reads all
FRead(file, pos, n) ==
  IF pos >= Len(file) THEN <<>>
  ELSE IF n < 0 THEN SubSeq(file, pos + 1, Len(file))
  ELSE SubSeq(file, pos + 1, Min(pos + n, Len(file)))

\* _read: exactly size bytes or truncated file
Exactly(res, size) ==
  IF Len(res) # size THEN [ok |-> FALSE, res |-> <<>>]
  ELSE [ok |-> TRUE, res |-> res]
ReadExact(file, pos, size) == Exactly(FRead(file, pos, size), size)

\* _read_int: a blank field is 0
IntField(r, size, base) ==
  IF ~r.ok THEN [ok |-> FALSE, val |-> 0]
  ELSE IF r.res = Rep(SP, size) THEN [ok |-> TRUE, val |-> 0]
  ELSE PyInt(r.res, base)
ReadInt(file, pos, size, base) ==
  IntField(ReadExact(file, pos, size), size, base)

(* ------------------------------------------------------------------ *)
(* Archive.Header                                                       *)
(* ------------------------------------------------------------------ *)
NoHeader == [ok |-> FALSE, archive |-> "", name |-> <<>>, mtime |-> 0,
             oid |-> 0, gid |-> 0, mode |-> 0, size |-> 0,
             position |-> 0, offset |-> 0]

SLASH == <<"/">>
SLASH2 == <<"/", "/">>

\* the loop of Header.__init__ that reads one extended name: characters
\* up to the next newline, truncated file when the file ends first
RECURSIVE ReadLine(_, _, _)
ReadLine(file, p, acc) ==
  IF p >= Len(file) THEN [ok |-> FALSE, res |-> <<>>]
  ELSE IF file[p + 1] = NL THEN [ok |-> TRUE, res |-> acc]
  ELSE ReadLine(file, p + 1, Append(acc, file[p + 1]))

NoName == [ok |-> FALSE, res |-> <<>>]

\* the lookup of reference ref in the extended filenames: out of bound
\* and missing table raise, as does a seek before the start of the file
Lookup(file, ref, filenames) ==
  IF ~ref.ok \/ ~filenames.ok THEN NoName
  ELSE IF ref.val >= filenames.size THEN NoName
  ELSE IF filenames.offset + ref.val < 0 THEN NoName
  ELSE ReadLine(file, filenames.offset + ref.val, <<>>)

\* one trailing slash is removed
StripSlash(r) ==
  IF r.ok /\ EndsWith(r.res, "/")
  THEN [ok |-> TRUE, res |-> SubSeq(r.res, 1, Len(r.res) - 1)]
  ELSE r

\* the name of a header from the stripped text of its 16-byte field
ResolveName(file, name, filenames) ==
  IF name = SLASH \/ name = SLASH2 THEN [ok |-> TRUE, res |-> name]
  ELSE IF StartsWith(name, "/")
  THEN StripSlash(Lookup(file, PyInt(Tail(name), 10), filenames))
  ELSE StripSlash([ok |-> TRUE, res |-> name])

NameOfField(file, r, filenames) ==
  IF ~r.ok THEN NoName ELSE ResolveName(file, Strip(r.res), filenames)

\* the name part of Header.__init__
HeaderName(file, pos, filenames) ==
  NameOfField(file, ReadExact(file, pos, 16), filenames)

MakeHeader(o, pos, name, mtime, oid, gid, mode, size, magic) ==
  IF /\ name.ok /\ mtime.ok /\ oid.ok /\ gid.ok /\ mode.ok /\ size.ok
     /\ magic.ok /\ magic.res = magic_number
  THEN [ok |-> TRUE, archive |-> o, name |-> name.res,
        mtime |-> mtime.val, oid |-> oid.val, gid |-> gid.val,
        mode |-> mode.val, size |-> size.val,
        position |-> pos, offset |-> pos + 60]
  ELSE NoHeader

\* Header.__init__(archive, source) with the source at position pos;
\* ok = FALSE stands for any of the exceptions it raises
ParseHeader(o, file, pos, filenames) ==
  MakeHeader(o, pos, HeaderName(file, pos, filenames),
             ReadInt(file, pos + 16, 12, 10), ReadInt(file, pos + 28, 6, 10),
             ReadInt(file, pos + 34, 6, 10), ReadInt(file, pos + 40, 8, 8),
             ReadInt(file, pos + 48, 10, 10), ReadExact(file, pos + 58, 2))

\* Header.space
Space(h) == h.size + (h.size % 2)

(* ------------------------------------------------------------------ *)
(* Archive.File and the copies made from it                             *)
(* ------------------------------------------------------------------ *)
\* File.read without the bound of the bytes left in the entry
ReadCountUnbounded(size, left) == size
\* the count File.read hands to the source
ReadCount(size, left) == Min(size, left)

\* File.read(size) on the entry of declared size hsize, after read bytes,
\* with the source at position tell; ok = FALSE is the ValueError the
\* source raises for a count below -1
Advance(res, tell, read) ==
  [ok |-> TRUE, res |-> res, tell |-> tell + Len(res),
   read |-> read + Len(res)]
ReadLeft(file, tell, read, left, n) ==
  IF left = 0 THEN [ok |-> TRUE, res |-> <<>>, tell |-> tell, read |-> read]
  ELSE IF n < -1
  THEN [ok |-> FALSE, res |-> <<>>, tell |-> tell, read |-> read]
  ELSE Advance(FRead(file, tell, n), tell, read)
FileRead(file, tell, hsize, read, size) ==
  ReadLeft(file, tell, read, hsize - read, ReadCount(size, hsize - read))

\* shutil.copyfileobj(File, dst): read CopyBufSize at a time until empty
RECURSIVE CopyFileObj(_, _, _, _, _)
RECURSIVE CopyBuf(_, _, _, _, _)
CopyBuf(file, tell, hsize, acc, r) ==
  IF ~r.ok THEN [ok |-> FALSE, data |-> acc, tell |-> tell]
  ELSE IF r.res = <<>> THEN [ok |-> TRUE, data |-> acc, tell |-> tell]
  ELSE CopyFileObj(file, r.tell, hsize, r.read, acc \o r.res)
CopyFileObj(file, tell, hsize, read, acc) ==
  CopyBuf(file, tell, hsize, acc,
          FileRead(file, tell, hsize, read, CopyBufSize))

\* Header.open() then copyfileobj: File.__init__ seeks to header.offset
CopyEntry(file, h) == CopyFileObj(file, h.offset, h.size, 0, <<>>)

\* Archive.extract: Header.extract for each header in turn; the result is
\* the sequence of files written, the last of them partial when a read
\* raised
RECURSIVE ExtractAll(_, _, _, _)
RECURSIVE Extracted(_, _, _, _)
Extracted(file, hs, log, c) ==
  IF ~c.ok
  THEN [ok |-> FALSE, tell |-> c.tell,
        log |-> Append(log, [name |-> Head(hs).name, data |-> c.data])]
  ELSE ExtractAll(file, Tail(hs), c.tell,
                  Append(log, [name |-> Head(hs).name, data |-> c.data]))
ExtractAll(file, hs, tell, log) ==
  IF hs = <<>> THEN [ok |-> TRUE, log |-> log, tell |-> tell]
  ELSE Extracted(file, hs, log, CopyEntry(file, Head(hs)))

(* ------------------------------------------------------------------ *)
(* Archive.__exit__: building the rewritten archive                     *)
(* ------------------------------------------------------------------ *)
header_start_size == 16 + 12 + 6 + 6 + 8
header_size == header_start_size + 10 + 2

\* a threshold two bytes too high
IsExtendedLate(name) == Len(name) > 18
\* whether a terminated name goes to the extended filenames
IsExtended(name) == Len(name) > 16

\* the loop over self.__inserted that chooses each written name
RECURSIVE Extend(_, _, _, _)
Extend(ins, filenames_offset, filenames, extended) ==
  IF ins = <<>>
  THEN [filenames_offset |-> filenames_offset, filenames |-> filenames,
        extended |-> extended]
  ELSE LET header == Head(ins)
           name == Append(header.name, "/")
       IN IF IsExtended(name)
          THEN Extend(Tail(ins), filenames_offset + Len(name) + 1,
                      Append(filenames, name),
                      Append(extended,
                             [name |-> SLASH \o IntStr(filenames_offset, 10),
                              header |-> header]))
          ELSE Extend(Tail(ins), filenames_offset, filenames,
                      Append(extended, [name |-> name, header |-> header]))

RECURSIVE NameLines(_)
NameLines(filenames) ==
  IF filenames = <<>> THEN <<>>
  ELSE Head(filenames) \o <<NL>> \o NameLines(Tail(filenames))

\* the extended filenames entry of the rewritten archive, and where the
\* source of the archive is left by the reads made for it
TableBytes(file, tell, table, filenames, filenames_space, tail) ==
  IF ~table.ok
  THEN [tell |-> tell,
        data |-> IF filenames # <<>>
                 THEN SLASH2 \o Rep(SP, header_start_size - 2)
                      \o Fmt(filenames_space, 10, 10) \o magic_number
                      \o tail
                 ELSE <<>>]
  ELSE IF filenames # <<>>
  THEN [tell |-> table.offset + Len(FRead(file, table.offset, table.size)),
        data |-> FRead(file, table.position, header_start_size)
                 \o Fmt(filenames_space, 10, 10) \o magic_number
                 \o FRead(file, table.offset, table.size) \o tail]
  ELSE [tell |-> table.position
                 + Len(FRead(file, table.position, header_size + Space(table))),
        data |-> FRead(file, table.position, header_size + Space(table))]

TablePart(file, tell, table, e) ==
  TableBytes(file, tell, table, e.filenames,
             IF e.filenames_offset % 2 = 0 THEN e.filenames_offset
             ELSE e.filenames_offset + 1,
             NameLines(e.filenames)
             \o (IF e.filenames_offset % 2 = 0 THEN <<>> ELSE <<NL>>))

\* the 60 bytes written in front of an appended entry
NewHeader(name, header) ==
  name \o Rep(SP, IF Len(name) < 16 THEN 16 - Len(name) ELSE 0)
  \o Fmt(header.mtime, 12, 10) \o Fmt(header.oid, 6, 10)
  \o Fmt(header.gid, 6, 10) \o Fmt(header.mode, 8, 8)
  \o Fmt(header.size, 10, 10) \o magic_number

\* the loop appending the new files; files, isopen and tells describe the
\* backing file of every archive object
RECURSIVE AppendNew(_, _, _, _, _, _)
RECURSIVE Appended(_, _, _, _, _, _, _)
Appended(extended, files, isopen, tells, dst, written, c) ==
  IF ~c.ok
  THEN [ok |-> FALSE, data |-> dst, written |-> written,
        tells |-> [tells EXCEPT ![Head(extended).header.archive] = c.tell]]
  ELSE AppendNew(Tail(extended), files, isopen,
         [tells EXCEPT ![Head(extended).header.archive] = c.tell],
         dst \o NewHeader(Head(extended).name, Head(extended).header)
             \o c.data,
         Append(written, [position |-> Len(dst),
                          name |-> Head(extended).name,
                          header |-> Head(extended).header]))
AppendNew(extended, files, isopen, tells, dst, written) ==
  IF extended = <<>>
  THEN [ok |-> TRUE, data |-> dst, tells |-> tells, written |-> written]
  ELSE IF ~isopen[Head(extended).header.archive]
  THEN [ok |-> FALSE, data |-> dst, tells |-> tells, written |-> written]
  ELSE Appended(extended, files, isopen, tells, dst, written,
                CopyEntry(files[Head(extended).header.archive],
                          Head(extended).header))

\* the copy of the old files, from the first visible header to the end of
\* the file (StopIteration when there is none), then the new files
CopyOld(me, headers, files, isopen, tells, extended, t) ==
  IF headers = <<>>
  THEN [ok |-> FALSE, data |-> magic_string \o t.data,
        tells |-> [tells EXCEPT ![me] = t.tell], written |-> <<>>]
  ELSE AppendNew(extended, files, isopen,
         [tells EXCEPT ![me] =
            IF headers[1].position < Len(files[me]) THEN Len(files[me])
            ELSE headers[1].position],
         magic_string \o t.data \o FRead(files[me], headers[1].position, -1),
         <<>>)

WriteTable(me, headers, table, files, isopen, tells, e) ==
  CopyOld(me, headers, files, isopen, tells, e.extended,
          TablePart(files[me], tells[me], table, e))

\* the with-block of Archive.__exit__ for archive me: the bytes of the
\* temporary archive, or ok = FALSE when an exception leaves the block
Rewrite(me, headers, table, inserted, files, isopen, tells) ==
  WriteTable(me, headers, table, files, isopen, tells,
             Extend(inserted, IF table.ok THEN table.size ELSE 0, <<>>, <<>>))

(* ------------------------------------------------------------------ *)
(* The archives the program is run on (ar files as the tests use them)  *)
(* ------------------------------------------------------------------ *)
LJ(s, w) == s \o Rep(SP, w - Len(s))

File(name, data) == [k |-> "file", name |-> name, data |-> data]
Sym(data) == [k |-> "sym", name |-> SLASH, data |-> data]
Tab == [k |-> "tab", name |-> SLASH2, data |-> <<>>]
Raw(data) == [k |-> "raw", name |-> <<>>, data |-> data]

\* the terminated names of an item list that need the filename table
RECURSIVE LongNames(_)
LongNames(items) ==
  IF items = <<>> THEN <<>>
  ELSE LET n == Append(Head(items).name, "/")
       IN IF Head(items).k = "file" /\ Len(n) > 16
          THEN <<n>> \o LongNames(Tail(items))
          ELSE LongNames(Tail(items))

RECURSIVE TableOffset(_, _)
TableOffset(n, longs) ==
  IF Head(longs) = n THEN 0
  ELSE Len(Head(longs)) + 1 + TableOffset(n, Tail(longs))

EntryBytes(field, stats, size, data) ==
  LJ(field, 16) \o stats \o LJ(IntStr(size, 10), 10) \o magic_number
  \o data \o (IF Len(data) % 2 = 1 THEN <<NL>> ELSE <<>>)

FileStats == LJ(<<"1", "2">>, 12) \o LJ(<<"1", "0">>, 6)
             \o LJ(<<"2", "0">>, 6) \o LJ(<<"6", "4", "4">>, 8)
BlankStats == Rep(SP, 12 + 6 + 6 + 8)

ItemBytes(it, longs) ==
  LET n == Append(it.name, "/")
      body == NameLines(longs)
  IN CASE it.k = "file" ->
            EntryBytes(IF Len(n) > 16
                       THEN SLASH \o IntStr(TableOffset(n, longs), 10)
                       ELSE n,
                       FileStats, Len(it.data), it.data)
       [] it.k = "sym" -> EntryBytes(SLASH, BlankStats, Len(it.data), it.data)
       [] it.k = "tab" -> EntryBytes(SLASH2, BlankStats, Len(body), body)
       [] it.k = "raw" -> it.data

RECURSIVE RenderItems(_, _)
RenderItems(items, longs) ==
  IF items = <<>> THEN <<>>
  ELSE ItemBytes(Head(items), longs) \o RenderItems(Tail(items), longs)

Render(items) == magic_string \o RenderItems(items, LongNames(items))

D2 == <<"z", "z">>
D3 == <<"a", "b", "c">>
D17 == Rep("d", 17)
N15 == Rep("n", 15)
L17 == Rep("l", 17)
L20 == Rep("m", 20)

\* an entry whose size field is negative, and a file cut inside a header
NegativeSize == LJ(<<"w", "/">>, 16) \o FileStats
                \o LJ(<<"-", "6", "0">>, 10) \o magic_number
CutHeader == LJ(<<"w", "/">>, 16) \o FileStats

Sources ==
  { <<File(<<"p">>, D3), File(<<"q">>, D2)>>,
    <<File(<<"q">>, D2)>>,
    <<Tab, File(L17, D17), File(N15, D2)>>,
    <<Tab, File(L20, D2)>>,
    <<File(<<"p">>, D2), Sym(D3), Tab, File(L17, D3)>>,
    <<Sym(D2)>>,
    <<Raw(NegativeSize)>>,
    <<File(<<"p">>, D2), Raw(CutHeader)>> }

Targets ==
  { <<File(<<"x">>, D2)>>,
    <<Sym(D3), Tab, File(L20, D3), File(<<"y">>, D2)>>,
    <<Sym(D2), File(<<"x">>, D3)>>,
    <<>>,
    <<Tab, File(L17, D2)>> }

\* a file that does not start with the archive magic
NotAnArchive == <<"!", "<", "a", "r", "c", ">", NL, NL>>

BadMagic == <<Raw(NotAnArchive)>>
FileBytes(items) == IF items = BadMagic THEN NotAnArchive ELSE Render(items)

(* ------------------------------------------------------------------ *)
(* State                                                                *)
(* ------------------------------------------------------------------ *)
\* A is the archive merged from, B the archive merged into, R the archive
\* opened again on the path of B once B has been closed
Objs == {"A", "B", "R"}
Path(o) == IF o = "A" THEN "a" ELSE "b"

VARIABLES
  fixture,  \* the entries each file was made of
  disk0,    \* the files as they were at the start
  disk,     \* path -> bytes
  arch,     \* the Archive objects
  tmp,      \* the temporary archive of a rewrite
  dest,     \* per object, the files written by extract
  stream    \* the File (content stream) under test

vars == <<fixture, disk0, disk, arch, tmp, dest, stream>>

NoTmp == [exists |-> FALSE, data |-> <<>>, written |-> <<>>]
NoDest == [done |-> FALSE, ok |-> TRUE, log |-> <<>>]
NoStream == [active |-> FALSE, ok |-> TRUE, o |-> "", header |-> NoHeader,
             read |-> 0, returned |-> 0, reads |-> 0, full |-> FALSE,
             last |-> <<>>]

NewArchive == [st |-> "new", err |-> "", handle |-> "none", tell |-> 0,
               file_size |-> 0, headers |-> <<>>, index |-> NoHeader,
               filenames |-> NoHeader, inserted |-> <<>>,
               walked |-> <<>>, merged |-> FALSE, srcopen |-> TRUE]

Init ==
  /\ \E sa \in Sources \cup {BadMagic}, sb \in Targets \cup {BadMagic} :
       fixture = [p \in {"a", "b"} |-> IF p = "a" THEN sa ELSE sb]
  /\ disk0 = [p \in {"a", "b"} |-> FileBytes(fixture[p])]
  /\ disk = disk0
  /\ arch = [o \in Objs |-> NewArchive]
  /\ tmp = NoTmp
  /\ dest = [o \in Objs |-> NoDest]
  /\ stream = NoStream

Src(o) == disk[Path(o)]
Ended(o) == arch[o].st \in {"closed", "failed"}
\* the with-block of o was entered, so its __exit__ has run
Exited(o) == Ended(o) /\ arch[o].err \notin {"magic", "header", "seek"}

(* ------------------------------------------------------------------ *)
(* Archive.__init__                                                     *)
(* ------------------------------------------------------------------ *)
Open(o) ==
  /\ arch[o].st = "new"
  /\ o = "B" => arch["A"].st \notin {"new", "walking"}
  /\ o = "R" => Exited("B")
  /\ LET file == Src(o)
         head == FRead(file, 0, 8)
     IN arch' = [arch EXCEPT ![o] =
          IF head # magic_string
          THEN [@ EXCEPT !.st = "failed", !.err = "magic",
                         !.handle = "open", !.tell = Len(head),
                         !.file_size = Len(file)]
          ELSE [@ EXCEPT !.st = "walking", !.handle = "open",
                         !.tell = Len(head), !.file_size = Len(file)]]
  /\ UNCHANGED <<fixture, disk0, disk, tmp, dest, stream>>

\* every header, special or not, lands in the visible list
ClassifiedUnfiltered(a, header) ==
  [a EXCEPT !.walked = Append(@, header.position),
            !.index = IF header.name = SLASH THEN header ELSE @,
            !.filenames = IF header.name = SLASH2 THEN header ELSE @,
            !.headers = Append(@, header)]
\* the header just parsed is filed and the source seeks past its payload
Classified(a, header) ==
  [a EXCEPT !.walked = Append(@, header.position),
            !.index = IF header.name = SLASH THEN header ELSE @,
            !.filenames = IF header.name = SLASH2 THEN header ELSE @,
            !.headers = IF header.name \notin {SLASH, SLASH2}
                        THEN Append(@, header) ELSE @]
Walked(a, header) ==
  IF ~header.ok THEN [a EXCEPT !.st = "failed", !.err = "header"]
  ELSE IF header.offset + Space(header) < 0
  THEN [Classified(a, header) EXCEPT !.st = "failed", !.err = "seek",
                                     !.tell = header.offset]
  ELSE [Classified(a, header) EXCEPT !.tell = header.offset + Space(header)]

\* one turn of the while loop of __init__
WalkStep(o) ==
  /\ arch[o].st = "walking"
  /\ arch[o].tell < arch[o].file_size
  /\ Len(arch[o].walked) < MaxWalk
  /\ arch' = [arch EXCEPT ![o] =
       Walked(@, ParseHeader(o, Src(o), arch[o].tell, arch[o].filenames))]
  /\ UNCHANGED <<fixture, disk0, disk, tmp, dest, stream>>

\* the loop ends and the pending-insert list is created
WalkDone(o) ==
  /\ arch[o].st = "walking"
  /\ arch[o].tell >= arch[o].file_size
  /\ arch' = [arch EXCEPT ![o].st = "open", ![o].inserted = <<>>]
  /\ UNCHANGED <<fixture, disk0, disk, tmp, dest, stream>>

(* ------------------------------------------------------------------ *)
(* merge, extract                                                       *)
(* ------------------------------------------------------------------ *)
\* target.merge(source)
Merge(t, s) ==
  /\ arch[t].st = "open"
  /\ arch[s].st \in {"open", "closed"}
  /\ Len(arch[t].inserted) + Len(arch[s].headers) <= MaxInserted
  /\ arch' = [arch EXCEPT ![t].inserted = @ \o arch[s].headers,
                          ![t].merged = TRUE]
  /\ UNCHANGED <<fixture, disk0, disk, tmp, dest, stream>>

\* archive.extract(destination) into a fresh directory
ExtractedTo(o, r) ==
  /\ dest' = [dest EXCEPT ![o] = [done |-> TRUE, ok |-> r.ok, log |-> r.log]]
  /\ arch' = [arch EXCEPT ![o].tell = r.tell]
Extract(o) ==
  /\ arch[o].st = "open"
  /\ ~dest[o].done
  /\ ExtractedTo(o, ExtractAll(Src(o), arch[o].headers, arch[o].tell, <<>>))
  /\ UNCHANGED <<fixture, disk0, disk, tmp, stream>>

(* ------------------------------------------------------------------ *)
(* Archive.__exit__                                                     *)
(* ------------------------------------------------------------------ *)
\* a close that always rewrites
NeedsRewriteAlways(inserted) == TRUE
\* the test of the pending-insert list
NeedsRewrite(inserted) == inserted # <<>>

\* nothing was merged: only the source is closed
ExitClean(o) ==
  /\ arch[o].st = "open"
  /\ ~NeedsRewrite(arch[o].inserted)
  /\ arch' = [arch EXCEPT ![o].st = "closed", ![o].handle = "closed"]
  /\ UNCHANGED <<fixture, disk0, disk, tmp, dest, stream>>

\* the state after the with-block that writes the temporary archive
Built(o, r, srcopen) ==
  /\ arch' = [x \in Objs |->
       IF x # o THEN [arch[x] EXCEPT !.tell = r.tells[x]]
       ELSE IF r.ok
       THEN [arch[x] EXCEPT !.tell = r.tells[x], !.st = "built",
                            !.srcopen = srcopen]
       ELSE [arch[x] EXCEPT !.tell = r.tells[x], !.st = "failed",
                            !.srcopen = srcopen,
                            !.err = IF arch[o].headers = <<>>
                                    THEN "StopIteration" ELSE "read"]]
  /\ tmp' = IF r.ok
            THEN [exists |-> TRUE, data |-> r.data, written |-> r.written]
            ELSE NoTmp

\* the temporary archive is written in full, or an exception of the code
\* leaves __exit__ before the source is closed
ExitBuild(o) ==
  /\ arch[o].st = "open"
  /\ NeedsRewrite(arch[o].inserted)
  /\ Built(o,
           Rewrite(o, arch[o].headers, arch[o].filenames, arch[o].inserted,
                   [x \in Objs |-> Src(x)],
                   [x \in Objs |-> arch[x].handle = "open"],
                   [x \in Objs |-> arch[x].tell]),
           \A i \in 1..Len(arch[o].inserted) :
              arch[arch[o].inserted[i].archive].handle = "open")
  /\ UNCHANGED <<fixture, disk0, disk, dest, stream>>

\* writing the temporary archive fails in the operating system
ExitBuildIoError(o) ==
  /\ arch[o].st = "open"
  /\ NeedsRewrite(arch[o].inserted)
  /\ arch' = [arch EXCEPT ![o].st = "failed", ![o].err = "io"]
  /\ tmp' = NoTmp
  /\ UNCHANGED <<fixture, disk0, disk, dest, stream>>

\* the source is closed and shutil.copyfile opens the target for writing,
\* which empties it
ExitReplace(o) ==
  /\ arch[o].st = "built"
  /\ arch' = [arch EXCEPT ![o].st = "replacing", ![o].handle = "closed"]
  /\ disk' = [disk EXCEPT ![Path(o)] = <<>>]
  /\ UNCHANGED <<fixture, disk0, tmp, dest, stream>>

\* shutil.copyfile writes the next buffer to the target
CopyChunk(o) ==
  /\ arch[o].st = "replacing"
  /\ Len(disk[Path(o)]) < Len(tmp.data)
  /\ disk' = [disk EXCEPT ![Path(o)] =
                @ \o FRead(tmp.data, Len(@), CopyBufSize)]
  /\ UNCHANGED <<fixture, disk0, arch, tmp, dest, stream>>

\* the copy is complete and the temporary directory is removed
CopyDone(o) ==
  /\ arch[o].st = "replacing"
  /\ Len(disk[Path(o)]) >= Len(tmp.data)
  /\ arch' = [arch EXCEPT ![o].st = "closed"]
  /\ tmp' = NoTmp
  /\ UNCHANGED <<fixture, disk0, disk, dest, stream>>

\* a write of shutil.copyfile fails in the operating system
CopyIoError(o) ==
  /\ arch[o].st = "replacing"
  /\ arch' = [arch EXCEPT ![o].st = "failed", ![o].err = "io"]
  /\ tmp' = NoTmp
  /\ UNCHANGED <<fixture, disk0, disk, dest, stream>>

(* ------------------------------------------------------------------ *)
(* A content stream read by a caller                                    *)
(* ------------------------------------------------------------------ *)
ReadCounts == {-1, 0, 1, 2, 100}

\* header.open(): File.__init__
OpenStream(o, i) ==
  /\ arch[o].st = "open"
  /\ ~stream.active
  /\ i \in 1..Len(arch[o].headers)
  /\ stream' = [NoStream EXCEPT !.active = TRUE, !.o = o,
                                !.header = arch[o].headers[i]]
  /\ arch' = [arch EXCEPT ![o].tell = arch[o].headers[i].offset]
  /\ UNCHANGED <<fixture, disk0, disk, tmp, dest>>

\* File.read(n)
Took(o, r) ==
  /\ stream' = [stream EXCEPT
                  !.ok = r.ok, !.read = r.read,
                  !.returned = @ + Len(r.res),
                  !.reads = @ + 1,
                  !.full = stream.returned >= stream.header.size,
                  !.last = r.res]
  /\ arch' = [arch EXCEPT ![o].tell = r.tell]
StreamRead(n) ==
  /\ stream.active /\ stream.ok
  /\ stream.reads < MaxReads
  /\ Took(stream.o, FileRead(Src(stream.o), arch[stream.o].tell,
                             stream.header.size, stream.read, n))
  /\ UNCHANGED <<fixture, disk0, disk, tmp, dest>>

(* ------------------------------------------------------------------ *)
(* Specifications                                                       *)
(* ------------------------------------------------------------------ *)
Next ==
  \/ \E o \in Objs : Open(o)
  \/ \E o \in Objs : WalkStep(o)
  \/ \E o \in Objs : WalkDone(o)
  \/ Merge("B", "A")
  \/ \E o \in Objs : Extract(o)
  \/ \E o \in Objs : ExitClean(o)
  \/ \E o \in Objs : ExitBuild(o)
  \/ \E o \in Objs : ExitBuildIoError(o)
  \/ \E o \in Objs : ExitReplace(o)
  \/ \E o \in Objs : CopyChunk(o)
  \/ \E o \in Objs : CopyDone(o)
  \/ \E o \in Objs : CopyIoError(o)

Spec == Init /\ [][Next]_vars

\* a caller that opens the source archive and reads one entry
NextStream ==
  \/ Open("A")
  \/ WalkStep("A")
  \/ WalkDone("A")
  \/ \E i \in 1..MaxWalk : OpenStream("A", i)
  \/ \E n \in ReadCounts : StreamRead(n)

SpecStream == Init /\ [][NextStream]_vars

(* ------------------------------------------------------------------ *)
(* Properties                                                           *)
(* ------------------------------------------------------------------ *)
Names(hs) == [i \in 1..Len(hs) |-> hs[i].name]
Payload(file, h) == SubSeq(file, h.offset + 1, h.offset + h.size)
Payloads(file, hs) == [i \in 1..Len(hs) |-> Payload(file, hs[i])]
Datas(log) == [i \in 1..Len(log) |-> log[i].data]
FieldAt(file, pos) == SubSeq(file, pos + 1, pos + 16)

\* every payload lies inside the file
ValidArchive(o) ==
  \A i \in 1..Len(arch[o].headers) :
     /\ arch[o].headers[i].size >= 0
     /\ arch[o].headers[i].offset + arch[o].headers[i].size <= Len(Src(o))

\* __init__ of o returned
Opened(o) == arch[o].st \in {"open", "built", "replacing", "closed"} \/ Exited(o)

RECURSIVE OrdinaryNames(_)
OrdinaryNames(items) ==
  IF items = <<>> THEN <<>>
  ELSE IF Head(items).k = "file"
       THEN <<Head(items).name>> \o OrdinaryNames(Tail(items))
       ELSE OrdinaryNames(Tail(items))

\* C1: after B.merge(A) and the close of B with A still open, the archive
\* opened again on the path of B lists the names of B followed by the names
\* of A, and extracting it gives every entry its original bytes
C1_MergeRoundTrip ==
  (/\ arch["B"].merged /\ Exited("B") /\ arch["B"].srcopen
   /\ arch["B"].err # "io"
   /\ arch["R"].st \in {"open", "closed", "failed"})
  => /\ arch["R"].st # "failed"
     /\ Names(arch["R"].headers)
          = Names(arch["B"].headers) \o Names(arch["B"].inserted)
     /\ dest["R"].done =>
          /\ dest["R"].ok
          /\ Datas(dest["R"].log)
               = Payloads(disk0["b"], arch["B"].headers)
                 \o Payloads(disk0["a"], arch["B"].inserted)

\* C2: extract of a valid archive writes, for every visible entry, a file
\* named after the entry holding exactly its size payload bytes from its
\* content offset
C2_ExtractExact ==
  [][\A o \in Objs :
       (~dest[o].done /\ dest'[o].done /\ ValidArchive(o))
       => /\ dest'[o].ok
          /\ Len(dest'[o].log) = Len(arch[o].headers)
          /\ \A i \in 1..Len(arch[o].headers) :
               /\ dest'[o].log[i].name = arch[o].headers[i].name
               /\ dest'[o].log[i].data = Payload(Src(o), arch[o].headers[i])]_vars

\* an archive was extracted whose 17-byte odd payload is followed by
\* another entry
C2_Witness ==
  \E o \in Objs :
    /\ dest[o].done /\ ValidArchive(o)
    /\ \E i \in 1..Len(dest[o].log) :
         Len(dest[o].log[i].data) = 17 /\ i < Len(dest[o].log)

\* C3: after open, headers holds every ordinary entry of the file exactly
\* once, in increasing file-offset order, and no entry whose name field is
\* / or //, wherever the special entries are in the file
C3_Listing ==
  \A o \in Objs :
    Opened(o) =>
      /\ o \in {"A", "B"} =>
           Names(arch[o].headers) = OrdinaryNames(fixture[Path(o)])
      /\ \A i \in 1..Len(arch[o].headers) :
           /\ i > 1 => arch[o].headers[i - 1].position
                         < arch[o].headers[i].position
           /\ o \in {"A", "B"} =>
                FieldAt(disk0[Path(o)], arch[o].headers[i].position)
                  \notin {LJ(SLASH, 16), LJ(SLASH2, 16)}

\* an archive is open whose symbol index and filename table come after
\* its first ordinary entry
C3_Witness ==
  /\ arch["A"].st = "open"
  /\ arch["A"].index.ok /\ arch["A"].filenames.ok
  /\ Len(arch["A"].headers) = 2
  /\ arch["A"].headers[1].position < arch["A"].index.position
  /\ arch["A"].filenames.position < arch["A"].headers[2].position

\* C4: a close whose commit fails leaves the bytes of the target file as
\* they were before the close
C4_AllOrNothing ==
  \A o \in Objs :
    (arch[o].st = "failed" /\ Exited(o)) => disk[Path(o)] = disk0[Path(o)]

\* a name field of the form /<decimal digits>, padded with spaces
IsReference(field) ==
  /\ Len(RStrip(field)) >= 2
  /\ field[1] = "/"
  /\ \A i \in 2..Len(RStrip(field)) : field[i] \in DOMAIN DigitVal

\* the header written at position pos of the temporary archive, read back
\* by Header.__init__ against the filename table written at its start
ReadBack(pos) ==
  ParseHeader("R", tmp.data, pos, ParseHeader("R", tmp.data, 8, NoHeader))

C6_CloseWithoutRewrite ==
  [][\A o \in Objs :
       (arch[o].st = "open" /\ arch[o].inserted = <<>>
        /\ arch'[o].st # "open")
       => /\ disk' = disk
          /\ tmp' = tmp
          /\ arch'[o] = [arch[o] EXCEPT !.st = "closed",
                                        !.handle = "closed"]]_vars

\* the target was closed after a merge that staged nothing
C6_Witness ==
  /\ arch["B"].st = "closed"
  /\ arch["B"].merged
  /\ arch["B"].inserted = <<>>
  /\ arch["B"].headers # <<>>
  /\ disk = disk0

\* C7: whatever counts are passed to read, the bytes returned in total
\* never exceed the declared size of the entry, and once size bytes were
\* returned every further read returns an empty result
C7_BoundedRead ==
  stream.active =>
    /\ stream.returned <= stream.header.size
    /\ stream.full => (stream.ok /\ stream.last = <<>>)

\* C8: in the temporary archive every appended header begins at the
\* content offset of the entry appended before it plus its space
C8_Aligned ==
  tmp.exists =>
    \A i \in 1..Len(tmp.written) :
      i > 1 => tmp.written[i].position
                 = tmp.written[i - 1].position + header_size
                   + Space(tmp.written[i - 1].header)

\* C9: no archive ends, by a failed open, a close or a failed commit, with
\* its backing handle still open
C9_HandleClosed ==
  \A o \in Objs : Ended(o) => arch[o].handle # "open"

\* C10: during the walk every header is parsed at a position strictly
\* greater than that of the header parsed before it
C10_WalkAdvances ==
  \A o \in Objs :
    \A i \in 1..Len(arch[o].walked) :
      i > 1 => arch[o].walked[i - 1] < arch[o].walked[i]

====
